---- MODULE Spec2Model ----
(***************************************************************************)
(* The chat-room backend of projeto13-batepapo-uol-api as a state machine. *)
(*                                                                         *)
(* The repository holds three iterations of the same server:               *)
(*   variant 1  src/unnamed/part_000      hand-written validation          *)
(*   variant 2  src/src/app.js:1-188      joi validation                   *)
(*   variant 3  src/src/app.js:191-425    joi + stripHtml, DELETE and PUT  *)
(*                                                                         *)
(* State is the two MongoDB collections plus the position of every request *)
(* handler and sweeper callback that is suspended at an `await`.  One      *)
(* action is one store operation together with the synchronous code that   *)
(* runs when its promise resolves, up to the issue of the next store       *)
(* operation.  Values a handler reads from the clock are read in that      *)
(* synchronous code and kept in the handler's locals until the store       *)
(* operation that carries them executes.  A request is taken to arrive at  *)
(* the instant its first store operation executes (nothing else can see    *)
(* that it arrived earlier); the sweeper reads the clock when its timer    *)
(* fires, before its find executes, so its tick is a step of its own.      *)
(* The `time` field of a message (the wall clock as HH:mm:ss) is read by   *)
(* nothing and is left out of the message documents.                       *)
(*                                                                         *)
(* Time is counted in units of 5 s: Threshold (10000 ms) is 2 and Interval *)
(* (15000 ms) is 3.                                                        *)
(***************************************************************************)
EXTENDS Integers, Sequences, FiniteSets, TLC

VARIABLES
  variant,       \* which of the three servers is running
  now,           \* Date.now(), in units of 5 s
  nextSweep,     \* the time at which setInterval fires next
  participants,  \* collection "participants": set of documents
  messages,      \* collection "messages": documents in natural (insertion) order
  nextPid,       \* the next ObjectId generated for a participant document
  nextMid,       \* the next ObjectId generated for a message document
  reqs,          \* request handlers suspended at an await, per connection
  sweeps,        \* sweeper callbacks suspended at an await
  started,       \* number of requests received so far
  resp,          \* the response sent by the step just taken (NoResp when it sent none)
  joined         \* history: names a Join answered 201 for, not removed by a sweep since

vars == <<variant, now, nextSweep, participants, messages, nextPid, nextMid, reqs, sweeps, started, resp, joined>>

\* ---------------------------------------------------------------- bounds

MaxTime == 4
MaxLongTime == 6
MaxReqs == 3

Conns == {1, 2}
Timers == {1, 2}

\* ------------------------------------------------------ program constants

Threshold == 2
Interval == 3

Todos == "Todos"
EnterText == "entra na sala..."
LeaveText == "sai da sala..."

\* ------------------------------------------------------------- the store

Min(a, b) == IF a <= b THEN a ELSE b

RECURSIVE SortById(_)
\* toArray() of a cursor with no sort: the documents in natural order, which is
\* the order of insertion, that is of the ids generated here.
SortById(docs) ==
  IF docs = {} THEN <<>>
  ELSE LET first == CHOOSE d \in docs : \A e \in docs : d.id <= e.id
       IN <<first>> \o SortById(docs \ {first})

\* Mutant of FindByName: the filter names a field the documents do not have
\* (findOne({ user: name })), so nothing matches.
FindByWrongField(coll, name) == {p \in coll : "user" \in DOMAIN p /\ p.name = name}

\* Mutant of FindByName: the filter is left out (findOne()), so any document matches.
FindAny(coll, name) == coll

\* collection("participants").findOne({ name }): the documents that match.
FindByName(coll, name) == {p \in coll : p.name = name}

\* Mutant of FindInactive: $lte for $lt.
FindInactiveInclusive(coll, cutoff) ==
  LET stale == SortById({p \in coll : p.lastStatus <= cutoff})
  IN [k \in 1..Len(stale) |-> [id |-> stale[k].id, name |-> stale[k].name]]

\* collection("participants").find({ lastStatus: { $lt: cutoff } }).toArray()
FindInactive(coll, cutoff) ==
  LET stale == SortById({p \in coll : p.lastStatus < cutoff})
  IN [k \in 1..Len(stale) |-> [id |-> stale[k].id, name |-> stale[k].name]]

\* collection("participants").deleteOne({ _id })
DeleteById(coll, id) == {p \in coll : p.id # id}

\* collection("participants").updateOne({ name }, { $set: { lastStatus } }):
\* the first document that matches, in natural order, is updated.
UpdateLastStatus(coll, name, t, at) ==
  LET hit == FindByName(coll, name)
  IN IF hit = {} THEN coll
     ELSE LET first == CHOOSE d \in hit : \A e \in hit : d.id <= e.id
          IN (coll \ {first}) \cup {[first EXCEPT !.lastStatus = t, !.late = at > t]}

\* --------------------------------------------------------------- requests

Idle == [pc |-> "idle", op |-> "none", user |-> "", key |-> "", to |-> "",
         text |-> "", type |-> "", mid |-> 0, t |-> 0, prior |-> FALSE, hyp |-> FALSE]

NoResp == [op |-> "none", status |-> 0, user |-> "", key |-> "", mid |-> 0, t |-> 0,
           n |-> 0, prior |-> FALSE, hyp |-> FALSE]

\* A sweeper callback that is not running.
NoSweep == [pc |-> "idle", cutoff |-> 0, list |-> <<>>, i |-> 0]

\* The Join that inserted participant document p has sent its 201.
Answered(p) == \A c \in Conns : ~(reqs[c].pc = "joinInsertM" /\ reqs[c].mid = p.id)

\* A new request is taken by the lowest free connection.
Free(c) == reqs[c].pc = "idle" /\ \A d \in Conns : d < c => reqs[d].pc # "idle"

CanStart(c) == Free(c) /\ started < MaxReqs

\* res.sendStatus(status) for the request held in record q.
Answer(q, status) ==
  [op |-> q.op, status |-> status, user |-> q.user, key |-> q.key, mid |-> q.mid,
   t |-> q.t, n |-> 0, prior |-> q.prior, hyp |-> q.hyp]

Init ==
  /\ variant \in {1, 2, 3}
  /\ now = 0
  /\ nextSweep = Interval
  /\ participants = {}
  /\ messages = <<>>
  /\ nextPid = 1
  /\ nextMid = 1
  /\ reqs = [c \in Conns |-> Idle]
  /\ sweeps = [s \in Timers |-> NoSweep]
  /\ started = 0
  /\ resp = NoResp
  /\ joined = {}

\* ------------------------------------------------------------ validation

\* stripHtml(s).result on the strings the requests below carry: tags are removed
\* and the text between them is kept.
StripHtml(s) == CASE s = "<i>a</i>" -> "a" [] OTHER -> s

\* The name the directory is asked for: variant 3 looks up and stores cleanName.
CleanName(v, name) == IF v = 3 THEN StripHtml(name) ELSE name

\* `!name` in variant 1, nameSchema (joi.string().required()) in variants 2 and 3,
\* which validate the name as received.  "" is the empty string, which all three
\* reject (in variants 1 and 2 a missing value is rejected alike).
NameValid(v, name) == name # ""

MessageTypes == {"message", "private_message"}

\* Mutant of MessageValid: the check of type is left out.
MessageValidAnyType(v, user, to, text, type) ==
  /\ v = 1 \/ user # ""
  /\ to # ""
  /\ text # ""

\* The hand-written checks of variant 1 (the user header is not checked there) and
\* messageSchema of variants 2 and 3, applied to the fields as received.
MessageValid(v, user, to, text, type) ==
  /\ v = 1 \/ user # ""
  /\ to # ""
  /\ text # ""
  /\ type \in MessageTypes

\* userSchema / `!user` of POST /status.
UserValid(v, user) == user # ""

\* Number(req.query.limit) must be a number above 0.
LimitValid(limit) == limit > 0

\* messageSchema.validate({ ...req.body, from: user }) of PUT /messages/:id.  An
\* object is a record over ObjectKeys whose absent keys hold "".  joi rejects a key
\* the schema does not name and a required key that is absent.
ObjectKeys == {"user", "to", "text", "type", "from"}
SchemaKeys == {"user", "to", "text", "type"}
EditValid(body, user) ==
  LET obj == [body EXCEPT !.from = user]
  IN /\ \A k \in ObjectKeys \ SchemaKeys : obj[k] = ""
     /\ obj.user # "" /\ obj.to # "" /\ obj.text # ""
     /\ obj.type \in MessageTypes

\* ------------------------------------------------------ POST /participants

\* The request arrives and findOne({ name }) resolves: 422 when the name is not
\* valid, 409 when a document came back, otherwise Date.now() is read and the
\* insert is issued.
Join(c, name) ==
  /\ CanStart(c)
  /\ started' = started + 1
  /\ LET key == CleanName(variant, name)
         q == [Idle EXCEPT !.op = "join", !.user = name, !.key = key]
         h == [q EXCEPT !.prior = key \in joined,
                        !.hyp = \E p \in participants : p.name = key /\ Answered(p)]
     IN IF ~NameValid(variant, name)
        THEN /\ reqs' = reqs
             /\ resp' = Answer(q, 422)
        ELSE IF FindByName(participants, key) # {}
        THEN /\ reqs' = reqs
             /\ resp' = Answer(h, 409)
        ELSE /\ reqs' = [reqs EXCEPT ![c] = [h EXCEPT !.pc = "joinInsertP", !.t = now]]
             /\ resp' = NoResp
  /\ UNCHANGED <<variant, now, nextSweep, participants, messages, nextPid, nextMid, sweeps, joined>>

\* participants.insertOne({ name, lastStatus }) executes.
JoinInsertParticipant(c) ==
  /\ reqs[c].pc = "joinInsertP"
  /\ participants' = participants \cup
        {[id |-> nextPid, name |-> reqs[c].key, lastStatus |-> reqs[c].t,
          late |-> now > reqs[c].t]}
  /\ nextPid' = nextPid + 1
  /\ reqs' = [reqs EXCEPT ![c].pc = "joinInsertM", ![c].mid = nextPid]
  /\ resp' = NoResp
  /\ UNCHANGED <<variant, now, nextSweep, messages, sweeps, started, joined, nextMid>>

\* messages.insertOne(the join notice) executes and 201 is sent.
JoinInsertMessage(c) ==
  /\ reqs[c].pc = "joinInsertM"
  /\ messages' = Append(messages,
        [id |-> nextMid, from |-> reqs[c].key, to |-> Todos, text |-> EnterText, type |-> "status"])
  /\ nextMid' = nextMid + 1
  /\ reqs' = [reqs EXCEPT ![c] = Idle]
  /\ resp' = Answer(reqs[c], 201)
  /\ joined' = joined \cup {reqs[c].key}
  /\ UNCHANGED <<variant, now, nextSweep, participants, sweeps, started, nextPid>>

\* ---------------------------------------------------------- POST /messages

\* The request arrives and findOne({ name: user }) resolves: 422 when a field is
\* not valid or the sender is not registered, otherwise the insert is issued.
Post(c, user, to, text, type) ==
  /\ CanStart(c)
  /\ started' = started + 1
  /\ LET clean(s) == IF variant = 3 THEN StripHtml(s) ELSE s
         q == [Idle EXCEPT !.op = "post", !.user = user, !.key = clean(user),
                           !.to = clean(to), !.text = clean(text), !.type = clean(type)]
     IN IF ~MessageValid(variant, user, to, text, type)
        THEN /\ reqs' = reqs
             /\ resp' = Answer(q, 422)
        ELSE IF FindByName(participants, q.key) = {}
        THEN /\ reqs' = reqs
             /\ resp' = Answer(q, 422)
        ELSE /\ reqs' = [reqs EXCEPT ![c] = [q EXCEPT !.pc = "postInsert"]]
             /\ resp' = NoResp
  /\ UNCHANGED <<variant, now, nextSweep, participants, messages, nextPid, nextMid, sweeps, joined>>

\* messages.insertOne(the message) executes and 201 is sent.
PostInsert(c) ==
  /\ reqs[c].pc = "postInsert"
  /\ messages' = Append(messages,
        [id |-> nextMid, from |-> reqs[c].key, to |-> reqs[c].to, text |-> reqs[c].text,
         type |-> reqs[c].type])
  /\ nextMid' = nextMid + 1
  /\ reqs' = [reqs EXCEPT ![c] = Idle]
  /\ resp' = Answer(reqs[c], 201)
  /\ UNCHANGED <<variant, now, nextSweep, participants, sweeps, started, joined, nextPid>>

\* ----------------------------------------------------------- GET /messages

\* The filter document of find(): one $or of three clauses in variant 1, the
\* nested $or/$and of variants 2 and 3.
Matches(v, m, user) ==
  IF v = 1
  THEN \/ m.type \in {"private_message", "status", "message"}
       \/ m.from \in {Todos, user}
       \/ m.to = user
  ELSE \/ m.type \in {"status", "message"}
       \/ /\ m.type = "private_message"
          /\ \/ (m.from = user /\ m.to # user)
             \/ (m.from # user /\ m.to = user)
       \/ m.from = Todos

\* cursor.limit(n).toArray(): the first n documents.
Limit(docs, n) == SubSeq(docs, 1, Min(n, Len(docs)))

\* find(filter).limit(limit).toArray()
QueryMessages(v, msgs, user, limit) ==
  Limit(SelectSeq(msgs, LAMBDA m : Matches(v, m, user)), limit)

\* The request arrives and the find resolves: 422 for a limit that is no number
\* above 0, otherwise 200 with the documents found.
GetMessages(c, user, limit) ==
  /\ CanStart(c)
  /\ started' = started + 1
  /\ reqs' = reqs
  /\ LET q == [Idle EXCEPT !.op = "get", !.user = user, !.key = user, !.mid = limit]
     IN resp' = IF ~LimitValid(limit) THEN Answer(q, 422)
                ELSE [Answer(q, 200) EXCEPT
                        !.n = Len(QueryMessages(variant, messages, user, limit))]
  /\ UNCHANGED <<variant, now, nextSweep, participants, messages, nextPid, nextMid, sweeps, joined>>

\* ------------------------------------------------------------ POST /status

\* The request arrives and findOne({ name: user }) resolves: 404 when the header
\* is not valid or nothing came back, otherwise Date.now() is read and the update
\* is issued.
Status(c, user) ==
  /\ CanStart(c)
  /\ started' = started + 1
  /\ LET q == [Idle EXCEPT !.op = "status", !.user = user, !.key = user]
     IN IF ~UserValid(variant, user)
        THEN /\ reqs' = reqs
             /\ resp' = Answer(q, 404)
        ELSE IF FindByName(participants, user) = {}
        THEN /\ reqs' = reqs
             /\ resp' = Answer(q, 404)
        ELSE /\ reqs' = [reqs EXCEPT ![c] = [q EXCEPT !.pc = "statusUpdate", !.t = now]]
             /\ resp' = NoResp
  /\ UNCHANGED <<variant, now, nextSweep, participants, messages, nextPid, nextMid, sweeps, joined>>

\* updateOne({ name: user }, { $set: { lastStatus } }) executes and 200 is sent,
\* whether or not a document matched.
StatusUpdate(c) ==
  /\ reqs[c].pc = "statusUpdate"
  /\ participants' = UpdateLastStatus(participants, reqs[c].key, reqs[c].t, now)
  /\ reqs' = [reqs EXCEPT ![c] = Idle]
  /\ resp' = Answer(reqs[c], 200)
  /\ UNCHANGED <<variant, now, nextSweep, messages, nextPid, nextMid, sweeps, started, joined>>

\* ----------------------------------------- DELETE and PUT /messages/:id

\* findOne({ _id }): the positions of the documents that match.
FindMessage(msgs, id) == {k \in 1..Len(msgs) : msgs[k].id = id}

\* Mutant of Delete: deleteOne is issued before the message is looked up and its
\* owner compared, so a request that is answered 401 has removed the message.
DeleteBeforeCheck(c, user, mid) ==
  /\ variant = 3
  /\ CanStart(c)
  /\ started' = started + 1
  /\ LET q == [Idle EXCEPT !.op = "delete", !.user = user, !.key = user, !.mid = mid]
         hit == FindMessage(messages, mid)
     IN resp' = Answer(q, IF hit = {} THEN 404
                          ELSE IF \E k \in hit : messages[k].from # user THEN 401
                          ELSE 204)
  /\ messages' = SelectSeq(messages, LAMBDA m : m.id # mid)
  /\ reqs' = reqs
  /\ UNCHANGED <<variant, now, nextSweep, participants, nextPid, nextMid, sweeps, joined>>

\* The request arrives and findOne({ _id }) resolves: 404, 401, or the delete is
\* issued.
Delete(c, user, mid) ==
  /\ variant = 3
  /\ CanStart(c)
  /\ started' = started + 1
  /\ LET q == [Idle EXCEPT !.op = "delete", !.user = user, !.key = user, !.mid = mid]
         hit == FindMessage(messages, mid)
     IN IF hit = {}
        THEN /\ reqs' = reqs
             /\ resp' = Answer(q, 404)
        ELSE IF \E k \in hit : messages[k].from # user
        THEN /\ reqs' = reqs
             /\ resp' = Answer(q, 401)
        ELSE /\ reqs' = [reqs EXCEPT ![c] = [q EXCEPT !.pc = "deleteExec"]]
             /\ resp' = NoResp
  /\ UNCHANGED <<variant, now, nextSweep, participants, messages, nextPid, nextMid, sweeps, joined>>

\* deleteOne({ _id }) executes and 204 is sent.
DeleteExec(c) ==
  /\ reqs[c].pc = "deleteExec"
  /\ messages' = SelectSeq(messages, LAMBDA m : m.id # reqs[c].mid)
  /\ reqs' = [reqs EXCEPT ![c] = Idle]
  /\ resp' = Answer(reqs[c], 204)
  /\ UNCHANGED <<variant, now, nextSweep, participants, nextPid, nextMid, sweeps, started, joined>>

\* The status PUT /messages/:id answers with, and the store it leaves.  The
\* validation rejects every request (the object validated always carries the key
\* "from", which messageSchema does not name, when the user header is present; a
\* request without the header names no participant), so the handler never gets
\* past its participant lookup and is one step.
EditStatus(body, user, mid) ==
  IF ~EditValid(body, user) THEN 422
  ELSE IF FindByName(participants, user) = {} THEN 422
  ELSE IF FindMessage(messages, mid) = {} THEN 404
  ELSE IF \E k \in FindMessage(messages, mid) : messages[k].from # user THEN 401
  ELSE 200

EditMessage(c, user, mid, body) ==
  /\ variant = 3
  /\ CanStart(c)
  /\ started' = started + 1
  /\ reqs' = reqs
  /\ resp' = Answer([Idle EXCEPT !.op = "edit", !.user = user, !.key = user, !.mid = mid,
                                  !.hyp = /\ body.to # "" /\ body.text # ""
                                          /\ body.type \in MessageTypes
                                          /\ \E p \in participants : p.name = user],
                    EditStatus(body, user, mid))
  /\ messages' =
       IF EditStatus(body, user, mid) = 200
       THEN [k \in 1..Len(messages) |->
               IF messages[k].id = mid
               THEN [messages[k] EXCEPT !.to = body.to, !.text = body.text, !.type = body.type]
               ELSE messages[k]]
       ELSE messages
  /\ UNCHANGED <<variant, now, nextSweep, participants, nextPid, nextMid, sweeps, joined>>

\* ------------------------------------------------------------ the sweeper

\* A tick is taken by the lowest free callback slot.
FreeTimer(s) == sweeps[s].pc = "idle" /\ \A d \in Timers : d < s => sweeps[d].pc # "idle"

\* Mutant of Cutoff: the threshold and the interval are both subtracted.
CutoffLong(t) == t - Threshold - Interval

\* Date.now() - 10000 at time t.
Cutoff(t) == t - Threshold

\* setInterval fires: Date.now() - 10000 is computed and the find is issued.
SweepStart(s) ==
  /\ now = nextSweep
  /\ FreeTimer(s)
  /\ sweeps' = [sweeps EXCEPT ![s] = [NoSweep EXCEPT !.pc = "find", !.cutoff = Cutoff(now)]]
  /\ nextSweep' = nextSweep + Interval
  /\ resp' = NoResp
  /\ UNCHANGED <<variant, now, participants, messages, nextPid, nextMid, reqs, started, joined>>

\* find({ lastStatus: { $lt } }).toArray() resolves and the loop is entered.
SweepFind(s) ==
  /\ sweeps[s].pc = "find"
  /\ LET list == FindInactive(participants, sweeps[s].cutoff)
     IN sweeps' = [sweeps EXCEPT ![s] =
          IF list = <<>> THEN NoSweep
          ELSE [sweeps[s] EXCEPT !.pc = "delete", !.list = list, !.i = 1]]
  /\ resp' = NoResp
  /\ UNCHANGED <<variant, now, nextSweep, participants, messages, nextPid, nextMid, reqs, started, joined>>

\* deleteOne({ _id: participant._id }) executes.
SweepDelete(s) ==
  /\ sweeps[s].pc = "delete"
  /\ LET cur == sweeps[s].list[sweeps[s].i]
         left == DeleteById(participants, cur.id)
         gone == left # participants
     IN /\ participants' = left
        /\ joined' = IF gone THEN joined \ {cur.name} ELSE joined
  /\ sweeps' = [sweeps EXCEPT ![s].pc = "insert"]
  /\ resp' = NoResp
  /\ UNCHANGED <<variant, now, nextSweep, messages, nextPid, nextMid, reqs, started>>

\* messages.insertOne(the leave notice) executes; the loop goes on or ends.
SweepInsert(s) ==
  /\ sweeps[s].pc = "insert"
  /\ LET cur == sweeps[s].list[sweeps[s].i]
     IN messages' = Append(messages,
          [id |-> nextMid, from |-> cur.name, to |-> Todos, text |-> LeaveText, type |-> "status"])
  /\ nextMid' = nextMid + 1
  /\ sweeps' = [sweeps EXCEPT ![s] =
       IF sweeps[s].i < Len(sweeps[s].list)
       THEN [sweeps[s] EXCEPT !.pc = "delete", !.i = @ + 1]
       ELSE NoSweep]
  /\ resp' = NoResp
  /\ UNCHANGED <<variant, now, nextSweep, participants, reqs, started, joined, nextPid>>

\* The store operation the callback awaits (find, deleteOne or insertOne) rejects
\* without having been applied: control leaves the for loop for the catch around
\* it, the error is logged and the callback ends.
SweepError(s) ==
  /\ sweeps[s].pc \in {"find", "delete", "insert"}
  /\ sweeps' = [sweeps EXCEPT ![s] = NoSweep]
  /\ resp' = NoResp
  /\ UNCHANGED <<variant, now, nextSweep, participants, messages, nextPid, nextMid, reqs, started, joined>>

\* Time passes, up to the instant the timer is due.
Elapse(max) ==
  /\ now < nextSweep
  /\ now < max
  /\ now' = now + 1
  /\ resp' = NoResp
  /\ UNCHANGED <<variant, nextSweep, participants, messages, nextPid, nextMid, reqs, sweeps, started, joined>>

\* ---------------------------------------------------------- what is sent

\* Three specifications share the handlers above and differ in what the clients
\* send.  Spec is the presence model: joins, posts and heartbeats racing with
\* the clock and the sweeper.  SpecBoard is the message board: every route, with
\* the full range of message fields, in the time before the first sweep tick.
\* SpecLong is the presence model again, over a longer time with one name.

JoinNames == {"a", "b", "<i>a</i>", ""}
Heartbeats == {"a", ""}

BoardNames == {"a", "<i>a</i>", Todos, ""}
Users == {"a", Todos}
Recipients == {"a", "b", Todos}
Texts == {"hi"}
Types == {"message", "private_message", "status"}
Limits == {0, 1}
MessageIds == {0} \cup {messages[k].id : k \in 1..Len(messages)}
EditBodies ==
  {[user |-> "", to |-> "b", text |-> "bye", type |-> "message", from |-> ""],
   [user |-> "a", to |-> "b", text |-> "bye", type |-> "message", from |-> ""]}

Next ==
  \/ \E c \in Conns, name \in JoinNames : Join(c, name)
  \/ \E c \in Conns : JoinInsertParticipant(c)
  \/ \E c \in Conns : JoinInsertMessage(c)
  \/ \E c \in Conns, type \in {"message", "status"} : Post(c, "a", Todos, "hi", type)
  \/ \E c \in Conns : PostInsert(c)
  \/ \E c \in Conns, user \in Heartbeats : Status(c, user)
  \/ \E c \in Conns : StatusUpdate(c)
  \/ \E s \in Timers : SweepStart(s)
  \/ \E s \in Timers : SweepFind(s)
  \/ \E s \in Timers : SweepDelete(s)
  \/ \E s \in Timers : SweepInsert(s)
  \/ Elapse(MaxTime)

\* The join, post, heartbeat and sweeper code is the same text in the three files
\* but for variant 3's sanitising of the name, so the presence model runs variant 3.
InitPresence == Init /\ variant = 3

Spec == InitPresence /\ [][Next]_vars

NextBoard ==
  \/ \E c \in Conns, name \in BoardNames : Join(c, name)
  \/ \E c \in Conns : JoinInsertParticipant(c)
  \/ \E c \in Conns : JoinInsertMessage(c)
  \/ \E c \in Conns, user \in Users, to \in Recipients, text \in Texts, type \in Types :
       Post(c, user, to, text, type)
  \/ \E c \in Conns : PostInsert(c)
  \/ \E c \in Conns, limit \in Limits : GetMessages(c, "a", limit)
  \/ \E c \in Conns, user \in Users, mid \in MessageIds : Delete(c, user, mid)
  \/ \E c \in Conns : DeleteExec(c)
  \/ \E c \in Conns, user \in Users, mid \in MessageIds, body \in EditBodies :
       EditMessage(c, user, mid, body)

SpecBoard == Init /\ [][NextBoard]_vars

\* SpecLong is the presence model over two sweep ticks, with one name.
NextLong ==
  \/ \E c \in Conns : Join(c, "a")
  \/ \E c \in Conns : JoinInsertParticipant(c)
  \/ \E c \in Conns : JoinInsertMessage(c)
  \/ \E c \in Conns : Status(c, "a")
  \/ \E c \in Conns : StatusUpdate(c)
  \/ \E s \in Timers : SweepStart(s)
  \/ \E s \in Timers : SweepFind(s)
  \/ \E s \in Timers : SweepDelete(s)
  \/ \E s \in Timers : SweepInsert(s)
  \/ Elapse(MaxLongTime)

SpecLong == InitPresence /\ [][NextLong]_vars

\* SpecRoom is SpecLong for the two servers that have no DELETE and PUT routes.
InitRoom == Init /\ variant \in {1, 2}

SpecRoom == InitRoom /\ [][NextLong]_vars

\* SpecFaulty is the presence model with a store that can fail under the sweeper.
FaultyNames == {"a", "b"}

NextFaulty ==
  \/ \E c \in Conns, name \in FaultyNames : Join(c, name)
  \/ \E c \in Conns : JoinInsertParticipant(c)
  \/ \E c \in Conns : JoinInsertMessage(c)
  \/ \E s \in Timers : SweepStart(s)
  \/ \E s \in Timers : SweepFind(s)
  \/ \E s \in Timers : SweepDelete(s)
  \/ \E s \in Timers : SweepInsert(s)
  \/ \E s \in Timers : SweepError(s)
  \/ Elapse(MaxTime)

SpecFaulty == InitPresence /\ [][NextFaulty]_vars

\* ------------------------------------------------------------- the claims

Ids(coll) == {p.id : p \in coll}
Range(seq) == {seq[k] : k \in 1..Len(seq)}
Last(seq) == seq[Len(seq)]

\* C1: in every reachable state the directory holds at most one participant
\* document per name, also when Joins for the same name run concurrently.
\* Violated: two Joins both pass findOne before either inserts.
C1_OneRecordPerName ==
  \A p, q \in participants : p.name = q.name => p.id = q.id

\* C2 as stated: a Join(name) that arrives after a Join(name) was answered 201,
\* with no sweep having removed the name since that answer, is answered 409.
\* Violated: the sweeper removes the document between the first Join's insert and
\* its answer, and the later Join is answered 201.
C2_RejoinConflicts ==
  (resp.op = "join" /\ resp.prior) => resp.status = 409

\* C2 as amended: a Join(name) whose existence check runs while the document
\* inserted by a Join(name) that was answered 201 is still in the directory (no
\* sweep has removed it since it was inserted) is answered 409.
C2_RejoinConflictsWhileRegistered ==
  (resp.op = "join" /\ resp.hyp) => resp.status = 409

C2_Witness ==
  resp.op = "join" /\ resp.hyp /\ resp.status = 409 /\ resp.user # resp.key

\* ---- GET /messages (C3, C4, C5)

Viewers == {"a", "b", "c", Todos}

\* The visibility rule Query is to implement: status and public messages, messages
\* from the broadcast sender, and direct messages the viewer sent or received.
VisibleTo(m, viewer) ==
  \/ m.type \in {"status", "message"}
  \/ m.from = Todos
  \/ m.type = "private_message" /\ (m.from = viewer \/ m.to = viewer)

\* C3: Query(viewer, limit) never returns a private_message whose sender is not
\* the viewer and whose recipient is not the viewer, in each of the variants.
\* Violated: variant 1's filter matches every private_message; in variants 2 and
\* 3 the clause { from: "Todos" } returns a direct message sent by a participant
\* named "Todos" to every viewer.
C3_NoForeignDirectMessage ==
  \A viewer \in Viewers, limit \in 1..(Len(messages) + 1) :
    \A m \in Range(QueryMessages(variant, messages, viewer, limit)) :
      ~(m.type = "private_message" /\ m.from # viewer /\ m.to # viewer)

\* C4: with a limit that is at least the number of stored messages, Query(viewer,
\* limit) returns every status and public message and every direct message the
\* viewer sent or received, a direct message to oneself included.
\* Violated: variants 2 and 3 match a private_message only when exactly one of
\* from and to is the viewer.
C4_VisibleMessagesReturned ==
  \A viewer \in Viewers :
    \A m \in Range(messages) :
      ( \/ m.type \in {"status", "message"}
        \/ m.type = "private_message" /\ (m.from = viewer \/ m.to = viewer) )
      => m \in Range(QueryMessages(variant, messages, viewer, Len(messages)))

\* C5: for a positive limit, Query(viewer, limit) is the first min(limit, k) of
\* the k messages visible to the viewer, in insertion order.
\* Violated through C3 and C4: what the filter matches is not what is visible.
C5_FirstVisibleInOrder ==
  \A viewer \in Viewers, limit \in 1..(Len(messages) + 1) :
    LET visible == SelectSeq(messages, LAMBDA m : VisibleTo(m, viewer))
    IN QueryMessages(variant, messages, viewer, limit)
         = SubSeq(visible, 1, Min(limit, Len(visible)))

\* ---- the sweeper (C6, C7, C8)

LeaveNotice(m, name) ==
  m.from = name /\ m.to = Todos /\ m.text = LeaveText /\ m.type = "status"

C7_SenderRegisteredAtWrite ==
  [][(Len(messages') > Len(messages) /\ Last(messages').type \in MessageTypes)
       => \E p \in participants : p.name = Last(messages').from]_vars

\* C8 as stated: no reachable state has a participant whose lastStatus is older
\* than now - (Threshold + Interval).
\* Violated: the tick that fetches the participant fires in time, but the
\* document stays until that tick's find and deleteOne have executed.
C8_StalenessBounded ==
  \A p \in participants : p.lastStatus >= now - (Threshold + Interval)

\* Participant document p is about to be fetched by a tick that has fired, or is
\* in the list of a tick that has not yet deleted it.
BeingSwept(p) ==
  \E s \in Timers :
    \/ sweeps[s].pc = "find" /\ p.lastStatus < sweeps[s].cutoff
    \/ /\ sweeps[s].pc \in {"delete", "insert"}
       /\ \E k \in 1..Len(sweeps[s].list) :
            /\ sweeps[s].list[k].id = p.id
            /\ k >= sweeps[s].i
            /\ sweeps[s].pc = "insert" => k > sweeps[s].i

\* C8 as amended: a participant whose last join or heartbeat reached the store at
\* the time it carries and is older than now - (Threshold + Interval) is being
\* removed: a tick that fired no later than Threshold + Interval after it has
\* the participant in its fetch, and the document goes when that tick's
\* deleteOne executes.
C8_StaleIsBeingSwept ==
  \A p \in participants :
    (p.lastStatus < now - (Threshold + Interval) /\ ~p.late) => BeingSwept(p)

C8_Witness ==
  \E p \in participants :
    p.lastStatus < now - (Threshold + Interval) /\ ~p.late /\ BeingSwept(p)

\* ---- POST /status (C9)

\* The step takes in a request for route op; ArrivedUser is the name it carries.
Arrived(op) ==
  /\ started' = started + 1
  /\ \/ resp'.op = op
     \/ \E c \in Conns : reqs[c].pc = "idle" /\ reqs'[c].op = op
ArrivedUser ==
  IF resp' # NoResp THEN resp'.user
  ELSE LET c == CHOOSE d \in Conns : reqs[d].pc = "idle" /\ reqs'[d].pc # "idle"
       IN reqs'[c].user

\* C9: a Heartbeat for a name that is not in the directory when the request is
\* handled is answered 404.
C9_AbsentHeartbeatNotFound ==
  [][(Arrived("status") /\ {p \in participants : p.name = ArrivedUser} = {})
       => (resp'.op = "status" /\ resp'.status = 404)]_vars

C9_Witness ==
  /\ resp.op = "status" /\ resp.status = 404 /\ resp.user # ""
  /\ participants # {}
  /\ \A p \in participants : p.name # resp.user

\* ---- DELETE and PUT /messages/:id (C10)

\* C10: a Delete or an Edit by a caller who is not the message's from is answered
\* 401, and one for an id that is not stored is answered 404.  An Edit is taken
\* here only when its body carries valid to, text and type and its caller is
\* registered.
\* Violated: every Edit is answered 422, because the object PUT validates always
\* has the key "from", which messageSchema does not name.
C10_OwnerOnly ==
  (resp.op = "delete" \/ (resp.op = "edit" /\ resp.hyp)) =>
    LET hit == {k \in 1..Len(messages) : messages[k].id = resp.mid}
    IN /\ (\E k \in hit : messages[k].from # resp.user) => resp.status = 401
       /\ (hit = {} /\ resp.status # 204) => resp.status = 404

\* ---- PUT /messages/:id (C11)

\* C11: an Edit by the registered owner of a stored message, with a body that
\* carries valid to, text and type, is answered 200 and the stored message then
\* carries the body's to, text and type.
\* Violated: the object PUT validates always has the key "from", so the owner's
\* Edit is answered 422 and the message is left as it was.
C11_OwnerEditSucceeds ==
  (resp.op = "edit" /\ resp.hyp) =>
    \A k \in 1..Len(messages) :
      (messages[k].id = resp.mid /\ messages[k].from = resp.user) =>
        /\ resp.status = 200
        /\ \E body \in EditBodies :
             /\ messages[k].to = body.to
             /\ messages[k].text = body.text
             /\ messages[k].type = body.type

\* ---- the kinds of stored messages (C12, C13)

\* C12: every stored private_message has to and from different from "Todos".
\* Violated: POST /messages checks only that to is a non-empty string and that
\* from is registered, and "Todos" can be registered as a name.
C12_DirectMessageNotBroadcast ==
  \A m \in Range(messages) :
    m.type = "private_message" => (m.to # Todos /\ m.from # Todos)

\* C13: every stored status message has to = "Todos"; a status message enters
\* the store only by the insert of a Join that is answered 201 or by the
\* sweeper's insert, and no step turns a stored message into a status message; a
\* Post whose type is neither message nor private_message is answered 422 and
\* stores nothing.
C13_StatusOnlyFromSystem ==
  [][/\ \A m \in Range(messages') : m.type = "status" => m.to = Todos
     /\ (\E k \in 1..Len(messages') :
           /\ messages'[k].type = "status"
           /\ ~\E j \in 1..Len(messages) :
                 messages[j].id = messages'[k].id /\ messages[j].type = "status")
          => \/ \E c \in Conns : /\ reqs[c].pc = "joinInsertM"
                                 /\ resp'.op = "join" /\ resp'.status = 201
             \/ \E s \in Timers : sweeps[s].pc = "insert" /\ sweeps'[s] # sweeps[s]
     /\ \A c \in Conns, user \in Users, to \in Recipients, text \in Texts,
           type \in Types \ MessageTypes :
          Post(c, user, to, text, type) => (resp'.status = 422 /\ messages' = messages)
    ]_vars

\* A Post by a registered sender has just been answered 422 (its to and text are
\* valid, so it is its type that was refused) and a status message is stored.
C13_Witness ==
  /\ resp.op = "post" /\ resp.status = 422
  /\ \E p \in participants : p.name = resp.key
  /\ \E m \in Range(messages) : m.type = "status"

\* ---- store errors under the sweeper (C14)

\* C14: when a sweep tick ends, every participant it fetched, but for the one it
\* was working on when a store operation failed, has been removed from the
\* directory.
\* Violated: one try/catch encloses the whole for loop, so the first store error
\* ends the tick and the participants after it in the list stay.
C14_SweepContinuesAfterError ==
  [][\A s \in Timers :
       (sweeps[s].pc # "idle" /\ sweeps'[s].pc = "idle") =>
         \A k \in 1..Len(sweeps[s].list) :
           k # sweeps[s].i => sweeps[s].list[k].id \notin Ids(participants')
    ]_vars

\* ---- rejections (C15)

Rejections == {422, 409, 404, 401}

\* C15: the step in which a request is answered 422, 409, 404 or 401 changes
\* neither the participant directory nor the message store, and that step is the
\* request's first: no insert, update or delete of the request precedes it.
C15_RejectionLeavesStore ==
  [][resp'.status \in Rejections =>
       /\ participants' = participants
       /\ messages' = messages
       /\ started' = started + 1]_vars

\* A Delete by a caller who does not own the message has just been answered 401
\* and the message is still stored.
C15_Witness ==
  /\ resp.op = "delete" /\ resp.status = 401
  /\ \E m \in Range(messages) : m.id = resp.mid /\ m.from # resp.user

\* ---- heartbeats against the sweeper (C16, C17)

\* C16: when a Heartbeat is answered 200, a participant document with its name
\* is in the directory and carries the time that heartbeat took as lastStatus.
\* Violated: the sweeper deletes the document between the heartbeat's findOne
\* and its updateOne, which then matches nothing, and 200 is sent all the same.
C16_HeartbeatSuccessMeansStored ==
  (resp.op = "status" /\ resp.status = 200) =>
    \E p \in participants : p.name = resp.user /\ p.lastStatus = resp.t

\* C17: the sweeper's deleteOne never removes a participant document whose
\* lastStatus, at the instant of the delete, is within the threshold.
\* Violated: the delete is by _id alone, so a heartbeat that lands between the
\* tick's find and its deleteOne does not save the participant.
C17_FreshNeverEvicted ==
  [][\A p \in participants :
       p.id \notin Ids(participants') => p.lastStatus < now - Threshold]_vars

\* ---- join and leave notices (C18)

\* C18: for every name, the status messages from that name alternate in
\* insertion order between the join notice and the leave notice, starting with
\* a join notice.
\* Violated: two concurrent Joins for a name both insert a join notice (C1); a
\* Join that runs between a tick's deleteOne and its insertOne puts its join
\* notice before the leave notice; two overlapping ticks that fetched the same
\* document both insert a leave notice.
C18_NoticesAlternate ==
  \A name \in {m.from : m \in Range(messages)} :
    LET notices == SelectSeq(messages, LAMBDA m : m.type = "status" /\ m.from = name)
    IN \A k \in 1..Len(notices) :
         notices[k].text = IF k % 2 = 1 THEN EnterText ELSE LeaveText

====
